---- MODULE Spec2Model ----
(***************************************************************************)
(* Session lifecycle of the cucumber "world" (src/Drivers/phantomDriver.js *)
(* lines 22-232): the module-level `driver`, the published global.driver,  *)
(* the BeforeScenario / After / AfterFeatures hooks and the webdriver      *)
(* commands they issue.  Commands are asynchronous: a hook appends them to *)
(* the session's command queue (`inflight`) and they settle later, in the  *)
(* order they were issued.                                                 *)
(***************************************************************************)
EXTENDS Integers, Sequences, FiniteSets, TLC

\* ---------------------------------------------------------------- bounds
MaxScenarios == 3
\* timeout arguments in milliseconds range over 500, 1000, ... 500 * MaxHalfSeconds
MaxHalfSeconds == 4
\* timeout arguments of loadPage in seconds range up to MaxSeconds
MaxSeconds == 2
\* open windows range over 1..MaxWindows
MaxWindows == 2

\* ------------------------------------------------------------ constants
Null == 0
Scenarios == 1..MaxScenarios
Handles == 1..MaxScenarios

NamedBrowsers == {"firefox", "phantomjs", "electron", "chrome"}
\* "custom" is a path that resolves to a driver file, "unknown" is a path
\* that does not, "" is an unset browserName
ValidBrowsers == NamedBrowsers \cup {"custom"}
AllBrowsers == ValidBrowsers \cup {"unknown", ""}
Strategies == {"always", "clear", "none"}
\* global.reportsPath: "" falsy, "missing" a directory that does not exist,
\* "exists" an existing directory
ReportsPaths == {"", "missing", "exists"}
\* "undefined": global.reportsPath was never set
AllReportsPaths == ReportsPaths \cup {"undefined"}
\* report files: "usable"; "noJson" cucumber-report.json is missing;
\* "noJunitPath" global.junitPath is unset or names no directory
ReportFiles == {"usable", "noJson", "noJunitPath"}

\* cookies, localStorage and sessionStorage of the page, as sets of keys
StoreKeys == {"a", "b"}
Stores == [cookies : SUBSET StoreKeys, local : SUBSET StoreKeys,
           sess : SUBSET StoreKeys]
EmptyStore == [cookies |-> {}, local |-> {}, sess |-> {}]
\* no wait helper is running
NoWait == [phase |-> "off"]

VARIABLES
    browserName,              \* global browserName
    browserTeardownStrategy,  \* global browserTeardownStrategy
    noScreenshot,             \* global.noScreenshot
    reportsPath,              \* global.reportsPath
    scenarios,                \* number of scenarios of the run
    driver,                   \* module-level `driver` (line 28)
    gdriver,                  \* global.driver
    created,                  \* number of driver factory invocations
    session,                  \* state of every session handle
    inflight,                 \* commands issued and not yet settled (FIFO)
    log,                      \* every command issued / event, in order
    pc,                       \* position of the runner
    cur,                      \* current scenario
    failed,                   \* scenario.isFailed()
    published,                \* global.driver as BeforeScenario n left it
    attached,                 \* scenario n has a screenshot attachment
    hookOutcome,              \* outcome of the After hook of scenario n
    doneCount,                \* invocations of AfterFeatures' done callback
    reportFiles,              \* state of the report files AfterFeatures uses
    store,                    \* cookies and storages of the session's page
    hygiene,                  \* direct calls of clearCookiesAndStorages
    wait                      \* the wait helper call in progress

config == <<browserName, browserTeardownStrategy, noScreenshot, reportsPath,
            scenarios, reportFiles>>
helperState == <<store, hygiene, wait>>
vars == <<browserName, browserTeardownStrategy, noScreenshot, reportsPath,
          scenarios, driver, gdriver, created, session, inflight, log, pc,
          cur, failed, published, attached, hookOutcome, doneCount,
          reportFiles, store, hygiene, wait>>

Cmd(e, s, h) == [e |-> e, s |-> s, h |-> h]

\* ------------------------------------------------------------- helpers.js
clearCookies(s, h) == <<Cmd("cookies", s, h)>>
clearStorages(s, h) == <<Cmd("storage", s, h)>>
\* helpers.clearCookies().then(helpers.clearStorages()): both commands are
\* issued at once, cookies first; the returned promise is clearCookies'
clearCookiesAndStorages(s, h) == clearCookies(s, h) \o clearStorages(s, h)

\* effect of driver.manage().deleteAllCookies() on the page
deleteAllCookies(st) == [st EXCEPT !.cookies = {}]
\* effect of 'window.localStorage.clear(); window.sessionStorage.clear();'
clearStoragesLocalOnly(st) == [st EXCEPT !.local = {}]
clearStoragesScript(st) == [st EXCEPT !.local = {}, !.sess = {}]
\* effect of a hygiene command that settles on a session in state `ss`
SettleEffect(e, ss, st) ==
    IF ss # "active" THEN st
    ELSE IF e = "cookies" THEN deleteAllCookies(st)
    ELSE IF e = "storage" THEN clearStoragesScript(st)
    ELSE st

\* ---------------------------------------------------------------- world
\* teardownBrowser: hygiene only, closeBrowser() is commented out; the
\* promise of clearCookiesAndStorages is neither awaited nor returned
teardownBrowserCloses(s, h) ==
    clearCookiesAndStorages(s, h) \o <<Cmd("close", s, h)>>
teardownBrowser(s, h) == clearCookiesAndStorages(s, h)

isFileSync(b) == b = "custom"
\* getDriverInstance throws for an identifier that is neither named nor a file
FactoryThrows(b) == b \notin NamedBrowsers /\ ~isFileSync(b)

\* `!driver` in the BeforeScenario handler
NeedsNewDriverAlways(d) == TRUE
NeedsNewDriver(d) == d = Null

\* createWorld skips the 'driver' key unless the strategy is 'always'
WorldResetsDriver(strategy) == strategy = "always"

\* `scenario.isFailed() && !global.noScreenshot` in the After hook
ShouldScreenshotOnAnyFailure(f, ns) == f
ShouldScreenshot(f, ns) == f /\ ~ns

\* `browserTeardownStrategy !== 'always'` in AfterFeatures
ShouldCloseInverted(strategy) == strategy = "always"
ShouldCloseAlways(strategy) == TRUE
ShouldClose(strategy) == strategy # "always"

\* `browserName !== 'firefox'` in closeBrowser
NeedsQuitAlways(b) == TRUE
NeedsQuit(b) == b # "firefox"

\* `global.reportsPath && fs.existsSync(global.reportsPath)`
ShouldReport(p) == p # "" /\ p = "exists"

\* AfterFeatures throws: path.resolve(undefined, ...) at line 191, or
\* fs.readFileSync of a missing cucumber-report.json at line 205, or
\* path.resolve / fs.writeFileSync on a missing junit path at lines 207-208
ReportThrows(p, f) == p = "undefined" \/ (ShouldReport(p) /\ f # "usable")

\* the runner moves on to the next scenario or to AfterFeatures
NextPc == IF cur < scenarios THEN "world" ELSE "features"
NextCur == IF cur < scenarios THEN cur + 1 ELSE cur

InitState ==
    /\ scenarios \in Scenarios
    /\ noScreenshot \in BOOLEAN
    /\ browserTeardownStrategy \in Strategies
    /\ driver = Null
    /\ gdriver = Null
    /\ created = 0
    /\ session = [h \in Handles |-> "uninitialized"]
    /\ inflight = <<>>
    /\ log = <<>>
    /\ pc = "world"
    /\ cur = 1
    /\ failed = [n \in Scenarios |-> FALSE]
    /\ published = [n \in Scenarios |-> Null]
    /\ attached = [n \in Scenarios |-> FALSE]
    /\ hookOutcome = [n \in Scenarios |-> "none"]
    /\ doneCount = 0
    /\ store = EmptyStore
    /\ hygiene = [calls |-> 0, seen |-> FALSE, once |-> EmptyStore]
    /\ wait = NoWait

Init ==
    /\ InitState
    /\ browserName \in ValidBrowsers
    /\ reportsPath \in ReportsPaths
    /\ reportFiles = "usable"

InitFault ==
    /\ InitState
    /\ browserName \in AllBrowsers
    /\ reportsPath \in AllReportsPaths
    /\ reportFiles \in (IF reportsPath = "exists" THEN ReportFiles ELSE {"usable"})

\* capabilities each named driver module builds its session with
DriverCaps(b) ==
    CASE b = "firefox" -> [acceptSslCerts |-> TRUE, maximized |-> TRUE]
      [] b = "chrome" -> [acceptSslCerts |-> TRUE, maximized |-> TRUE]
      [] b = "phantomjs" -> [acceptSslCerts |-> TRUE, maximized |-> TRUE]
      [] b = "electron" -> [acceptSslCerts |-> FALSE, maximized |-> FALSE]
      [] OTHER -> [acceptSslCerts |-> FALSE, maximized |-> FALSE]
\* capabilities of a handle getDriverInstance returned
HandleCaps(h) == DriverCaps(browserName)

\* new World() before every scenario
createWorld ==
    /\ pc = "world"
    /\ gdriver' = IF WorldResetsDriver(browserTeardownStrategy) THEN Null ELSE gdriver
    /\ pc' = "before"
    /\ UNCHANGED <<helperState, config, driver, created, session, inflight, log, cur,
                   failed, published, attached, hookOutcome, doneCount>>

\* BeforeScenario handler: global.driver = !driver ? getDriverInstance() : driver
BeforeScenarioNoRepublish ==
    /\ pc = "before"
    /\ ~(NeedsNewDriver(driver) /\ FactoryThrows(browserName))
    /\ IF NeedsNewDriver(driver)
         THEN /\ created' = created + 1
              /\ driver' = created + 1
              /\ gdriver' = created + 1
              /\ session' = [session EXCEPT ![created + 1] = "active"]
         ELSE UNCHANGED <<created, driver, session, gdriver>>
    /\ published' = [published EXCEPT ![cur] = gdriver']
    /\ pc' = "steps"
    /\ UNCHANGED <<helperState, config, inflight, log, cur, failed, attached, hookOutcome,
                   doneCount>>

BeforeScenario ==
    /\ pc = "before"
    /\ ~(NeedsNewDriver(driver) /\ FactoryThrows(browserName))
    /\ IF NeedsNewDriver(driver)
         THEN /\ created' = created + 1
              /\ driver' = created + 1
              /\ session' = [session EXCEPT ![created + 1] = "active"]
         ELSE UNCHANGED <<created, driver, session>>
    /\ gdriver' = driver'
    /\ published' = [published EXCEPT ![cur] = gdriver']
    /\ pc' = "steps"
    /\ UNCHANGED <<helperState, config, inflight, log, cur, failed, attached, hookOutcome,
                   doneCount>>

\* getDriverInstance throws inside the handler: nothing is assigned.  The
\* runner then ends the run or goes on with the next scenario
BeforeScenarioThrowsStale ==
    /\ pc = "before"
    /\ NeedsNewDriver(driver) /\ FactoryThrows(browserName)
    /\ log' = Append(log, Cmd("throw", cur, Null))
    /\ driver' = created + 1
    /\ created' = created + 1
    /\ \/ pc' = "aborted" /\ cur' = cur
       \/ cur < scenarios /\ pc' = "world" /\ cur' = cur + 1
    /\ UNCHANGED <<helperState, config, gdriver, session, inflight,
                   failed, published, attached, hookOutcome, doneCount>>

BeforeScenarioThrows ==
    /\ pc = "before"
    /\ NeedsNewDriver(driver) /\ FactoryThrows(browserName)
    /\ log' = Append(log, Cmd("throw", cur, Null))
    /\ \/ pc' = "aborted" /\ cur' = cur
       \/ cur < scenarios /\ pc' = "world" /\ cur' = cur + 1
    /\ UNCHANGED <<helperState, config, driver, gdriver, created, session,
                   inflight, failed, published, attached, hookOutcome,
                   doneCount>>

\* the steps of the scenario run and the scenario passes or fails
RunSteps ==
    /\ pc = "steps"
    /\ \E f \in BOOLEAN : failed' = [failed EXCEPT ![cur] = f]
    /\ pc' = "after"
    /\ UNCHANGED <<helperState, config, driver, gdriver, created, session, inflight, log,
                   cur, published, attached, hookOutcome, doneCount>>

\* After hook, up to its first suspension: on a failure with screenshots on
\* it issues takeScreenshot and waits for it; otherwise it returns
\* teardownBrowser(), which issues the hygiene commands and resolves
AfterClearsFirst ==
    /\ pc = "after"
    /\ IF ShouldScreenshot(failed[cur], noScreenshot)
         THEN /\ inflight' = inflight \o clearCookiesAndStorages(cur, gdriver)
                                      \o <<Cmd("shot", cur, gdriver)>>
              /\ log' = log \o clearCookiesAndStorages(cur, gdriver)
                            \o <<Cmd("shot", cur, gdriver)>>
              /\ hookOutcome' = [hookOutcome EXCEPT ![cur] = "pending"]
              /\ pc' = "shot"
              /\ cur' = cur
         ELSE /\ inflight' = inflight \o teardownBrowser(cur, gdriver)
              /\ log' = log \o teardownBrowser(cur, gdriver)
              /\ hookOutcome' = [hookOutcome EXCEPT ![cur] = "resolved"]
              /\ pc' = NextPc
              /\ cur' = NextCur
    /\ UNCHANGED <<helperState, config, driver, gdriver, created, session, failed,
                   published, attached, doneCount>>

After ==
    /\ pc = "after"
    /\ IF ShouldScreenshot(failed[cur], noScreenshot)
         THEN /\ inflight' = Append(inflight, Cmd("shot", cur, gdriver))
              /\ log' = Append(log, Cmd("shot", cur, gdriver))
              /\ hookOutcome' = [hookOutcome EXCEPT ![cur] = "pending"]
              /\ pc' = "shot"
              /\ cur' = cur
         ELSE /\ inflight' = inflight \o teardownBrowser(cur, gdriver)
              /\ log' = log \o teardownBrowser(cur, gdriver)
              /\ hookOutcome' = [hookOutcome EXCEPT ![cur] = "resolved"]
              /\ pc' = NextPc
              /\ cur' = NextCur
    /\ UNCHANGED <<helperState, config, driver, gdriver, created, session, failed,
                   published, attached, doneCount>>

\* takeScreenshot resolved: attach, clearCookiesAndStorages(), then
\* teardownBrowser().then(...); `eyes` is never assigned, so the hook resolves
ScreenshotResolves ==
    /\ pc = "shot"
    /\ inflight # <<>>
    /\ Head(inflight).e = "shot"
    /\ session[Head(inflight).h] = "active"
    /\ attached' = [attached EXCEPT ![cur] = TRUE]
    /\ inflight' = Tail(inflight) \o clearCookiesAndStorages(cur, gdriver)
                                  \o teardownBrowser(cur, gdriver)
    /\ log' = log \o <<Cmd("attach", cur, gdriver)>>
                  \o clearCookiesAndStorages(cur, gdriver)
                  \o teardownBrowser(cur, gdriver)
    /\ hookOutcome' = [hookOutcome EXCEPT ![cur] = "resolved"]
    /\ pc' = NextPc
    /\ cur' = NextCur
    /\ UNCHANGED <<helperState, config, driver, gdriver, created, session, failed,
                   published, doneCount>>

\* takeScreenshot rejected (the session is gone): the .then callback never
\* runs and the promise the hook returned rejects
ScreenshotRejects ==
    /\ pc = "shot"
    /\ inflight # <<>>
    /\ Head(inflight).e = "shot"
    /\ session[Head(inflight).h] # "active"
    /\ inflight' = Tail(inflight)
    /\ hookOutcome' = [hookOutcome EXCEPT ![cur] = "rejected"]
    /\ pc' = NextPc
    /\ cur' = NextCur
    /\ UNCHANGED <<helperState, config, driver, gdriver, created, session, log, failed,
                   published, attached, doneCount>>

\* a hygiene command settles; nobody waits for its promise
SettleHygiene ==
    /\ inflight # <<>>
    /\ Head(inflight).e \in {"cookies", "storage"}
    /\ inflight' = Tail(inflight)
    /\ store' = SettleEffect(Head(inflight).e, session[Head(inflight).h], store)
    /\ UNCHANGED <<hygiene, wait, config, driver, gdriver, created, session,
                   log, pc, cur, failed, published, attached, hookOutcome, doneCount>>

\* closeBrowser: driver.close().then(...)
closeBrowser == <<Cmd("close", 0, driver)>>

\* AfterFeatures handler: reports, then closeBrowser().then(() => done())
\* or, under 'always', done() at once
AfterFeaturesDoneFirst ==
    /\ pc = "features"
    /\ ~ReportThrows(reportsPath, reportFiles)
    /\ LET rep == IF ShouldReport(reportsPath)
                    THEN <<Cmd("report", 0, Null)>> ELSE <<>>
       IN IF ShouldClose(browserTeardownStrategy)
            THEN /\ inflight' = inflight \o closeBrowser
                 /\ log' = log \o rep \o <<Cmd("done", 0, Null)>> \o closeBrowser
                 /\ doneCount' = doneCount + 1
                 /\ pc' = "closing"
            ELSE /\ inflight' = inflight
                 /\ log' = log \o rep \o <<Cmd("done", 0, Null)>>
                 /\ doneCount' = doneCount + 1
                 /\ pc' = "done"
    /\ UNCHANGED <<helperState, config, driver, gdriver, created, session, cur, failed,
                   published, attached, hookOutcome>>

AfterFeatures ==
    /\ pc = "features"
    /\ ~ReportThrows(reportsPath, reportFiles)
    /\ LET rep == IF ShouldReport(reportsPath)
                    THEN <<Cmd("report", 0, Null)>> ELSE <<>>
       IN IF ShouldClose(browserTeardownStrategy)
            THEN /\ inflight' = inflight \o closeBrowser
                 /\ log' = log \o rep \o closeBrowser
                 /\ doneCount' = doneCount
                 /\ pc' = "closing"
            ELSE /\ inflight' = inflight
                 /\ log' = log \o rep \o <<Cmd("done", 0, Null)>>
                 /\ doneCount' = doneCount + 1
                 /\ pc' = "done"
    /\ UNCHANGED <<helperState, config, driver, gdriver, created, session, cur, failed,
                   published, attached, hookOutcome>>

\* AfterFeatures throws while writing the reports: neither closeBrowser nor
\* done() is reached
AfterFeaturesThrows ==
    /\ pc = "features"
    /\ ReportThrows(reportsPath, reportFiles)
    /\ pc' = "featuresThrown"
    /\ UNCHANGED <<helperState, config, driver, gdriver, created, session,
                   inflight, log, cur, failed, published, attached,
                   hookOutcome, doneCount>>

\* state of the handle once its window is closed: firefox's close releases
\* the session, the others keep it until quit
AfterClose(b) == IF b = "firefox" THEN "closed" ELSE "closing"

\* driver.close() resolved: quit unless firefox, else the chain reaches done()
CloseResolves ==
    /\ pc = "closing"
    /\ inflight # <<>>
    /\ Head(inflight).e = "close"
    /\ session[Head(inflight).h] = "active"
    /\ session' = [session EXCEPT ![Head(inflight).h] = AfterClose(browserName)]
    /\ IF NeedsQuit(browserName)
         THEN /\ inflight' = Append(Tail(inflight), Cmd("quit", 0, driver))
              /\ log' = log \o <<Cmd("closed", 0, driver), Cmd("quit", 0, driver)>>
              /\ doneCount' = doneCount
              /\ pc' = "quitting"
         ELSE /\ inflight' = Tail(inflight)
              /\ log' = log \o <<Cmd("closed", 0, driver), Cmd("done", 0, Null)>>
              /\ doneCount' = doneCount + 1
              /\ pc' = "done"
    /\ UNCHANGED <<helperState, config, driver, gdriver, created, cur, failed, published,
                   attached, hookOutcome>>

\* driver.quit() resolved: closeBrowser's promise resolves and done() runs
QuitResolves ==
    /\ pc = "quitting"
    /\ inflight # <<>>
    /\ Head(inflight).e = "quit"
    /\ session[Head(inflight).h] = "closing"
    /\ session' = [session EXCEPT ![Head(inflight).h] = "closed"]
    /\ inflight' = Tail(inflight)
    /\ log' = log \o <<Cmd("quitted", 0, driver), Cmd("done", 0, Null)>>
    /\ doneCount' = doneCount + 1
    /\ pc' = "done"
    /\ UNCHANGED <<helperState, config, driver, gdriver, created, cur, failed, published,
                   attached, hookOutcome>>

\* driver.close() or driver.quit() rejected: closeBrowser().then(() => done())
\* has no rejection handler, so done() is never called
TeardownRejects ==
    /\ pc \in {"closing", "quitting"}
    /\ inflight # <<>>
    /\ Head(inflight).e = (IF pc = "closing" THEN "close" ELSE "quit")
    /\ session[Head(inflight).h] = "lost"
    /\ inflight' = Tail(inflight)
    /\ pc' = "teardownRejected"
    /\ UNCHANGED <<helperState, config, driver, gdriver, created, session, log, cur,
                   failed, published, attached, hookOutcome, doneCount>>

\* the browser or its session dies under the run (a crash, a step that quits)
SessionLost ==
    /\ pc \notin {"done", "teardownRejected", "aborted", "featuresThrown"}
    /\ \E h \in Handles :
         /\ session[h] \in {"active", "closing"}
         /\ session' = [session EXCEPT ![h] = "lost"]
    /\ UNCHANGED <<helperState, config, driver, gdriver, created, inflight, log, pc, cur,
                   failed, published, attached, hookOutcome, doneCount>>

Next ==
    \/ createWorld
    \/ BeforeScenario
    \/ RunSteps
    \/ After
    \/ ScreenshotResolves
    \/ SettleHygiene
    \/ AfterFeatures
    \/ CloseResolves
    \/ QuitResolves

Spec == Init /\ [][Next]_vars

\* the same run with an invalid browser identifier possible and a session
\* that may be lost at any moment
NextFault ==
    \/ Next
    \/ BeforeScenarioThrows
    \/ AfterFeaturesThrows
    \/ ScreenshotRejects
    \/ TeardownRejects
    \/ SessionLost

SpecFault == InitFault /\ [][NextFault]_vars

\* ------------------------------------------- helpers called from a step
\* a step of a running scenario, session active, calls helpers directly
InHelpers ==
    /\ browserName = "chrome"
    /\ browserTeardownStrategy = "clear"
    /\ noScreenshot = FALSE
    /\ reportsPath = ""
    /\ reportFiles = "usable"
    /\ scenarios = 1
    /\ driver = 1
    /\ gdriver = 1
    /\ created = 1
    /\ session = [h \in Handles |-> IF h = 1 THEN "active" ELSE "uninitialized"]
    /\ inflight = <<>>
    /\ log = <<>>
    /\ pc = "helpers"
    /\ cur = 1
    /\ failed = [n \in Scenarios |-> FALSE]
    /\ published = [n \in Scenarios |-> IF n = 1 THEN 1 ELSE Null]
    /\ attached = [n \in Scenarios |-> FALSE]
    /\ hookOutcome = [n \in Scenarios |-> "none"]
    /\ doneCount = 0

InitHygiene ==
    /\ InHelpers
    /\ store \in Stores
    /\ hygiene = [calls |-> 0, seen |-> FALSE, once |-> store]
    /\ wait = NoWait

\* helpers.clearCookiesAndStorages() called from a step, at most twice; the
\* second call remembers the page state when the first has settled by then
CallClearCookiesAndStorages ==
    /\ pc = "helpers"
    /\ hygiene.calls < 2
    /\ inflight' = inflight \o clearCookiesAndStorages(cur, gdriver)
    /\ hygiene' = IF hygiene.calls = 1 /\ inflight = <<>>
                    THEN [calls |-> 2, seen |-> TRUE, once |-> store]
                    ELSE [hygiene EXCEPT !.calls = @ + 1]
    /\ UNCHANGED <<store, wait, config, driver, gdriver, created, session, log,
                   pc, cur, failed, published, attached, hookOutcome,
                   doneCount>>

NextHygiene ==
    \/ CallClearCookiesAndStorages
    \/ SettleHygiene

SpecHygiene == InitHygiene /\ [][NextHygiene]_vars

\* ------------------------------------------------------- wait helpers
\* `waitInSeconds * 1000` in loadPage
MsPerSecond == 1000
\* `i += 1000` in waitForNewWindows
LoopStepMs == 1000
\* `driver.sleep(1000)` in waitForNewWindows
SleepMs == 1000

\* the element, attribute and value the waits are called with
attributeName == "data-busy"
attributeValue == "false"
\* el.getAttribute() of an attribute that is not there
NullAttr == "<null>"
AttrValues == {NullAttr, "true", "false"}
AttributeWaits == {"waitUntilAttributeEquals", "waitUntilAttributeExists",
                   "waitUntilAttributeDoesNotExists"}

\* a timeout argument: omitted, or a number
Omitted == [given |-> FALSE, ms |-> 0]
Given(v) == [given |-> TRUE, ms |-> v]
MsArgs == {Omitted} \cup {Given(v) : v \in {0 - 1000, 0}}
                   \cup {Given(500 * k) : k \in 1..MaxHalfSeconds}
SecondsArgs == {Omitted} \cup {Given(v) : v \in (0 - 1)..MaxSeconds}
DefaultTimeouts == {1000, 1500}
\* time one poll of driver.wait takes (a round trip to the session)
PollTimes == {300, 500}

\* `waitInMilliseconds || DEFAULT_TIMEOUT`
EffectiveTimeout(a, def) == IF a.given /\ a.ms # 0 THEN a.ms ELSE def
\* `(waitInSeconds) ? (waitInSeconds * 1000) : DEFAULT_TIMEOUT`
EffectiveTimeoutSeconds(a, def) ==
    IF a.given /\ a.ms # 0 THEN a.ms * MsPerSecond ELSE def
\* `... + waitInMilliseconds + ...`: the argument as string concatenation
\* renders it, a number or the word undefined
Shown(a) == IF a.given THEN [t |-> "number", v |-> a.ms]
                       ELSE [t |-> "undefined", v |-> 0]
NoMessage == [attr |-> "", text |-> "", value |-> "", ms |-> Shown(Omitted)]
\* timeoutMessage of the three attribute waits
TimeoutMessage(helper, a) ==
    CASE helper = "waitUntilAttributeEquals" ->
           [attr |-> attributeName, text |-> " does not equal ",
            value |-> attributeValue, ms |-> Shown(a)]
      [] helper = "waitUntilAttributeExists" ->
           [attr |-> attributeName, text |-> " does not exists after ",
            value |-> "", ms |-> Shown(a)]
      [] helper = "waitUntilAttributeDoesNotExists" ->
           [attr |-> attributeName, text |-> " still exists after ",
            value |-> "", ms |-> Shown(a)]
      [] OTHER -> NoMessage

\* getAttributeValue: findElement rejects when no element matches
getAttributeValue(w) ==
    IF w.element THEN [ok |-> TRUE, value |-> w.attr]
                 ELSE [ok |-> FALSE, value |-> NullAttr]
\* the predicate each helper hands to driver.wait, on the attribute value
Predicate(helper, value) ==
    CASE helper = "waitUntilAttributeEquals" -> value = attributeValue
      [] helper = "waitUntilAttributeExists" -> value # NullAttr
      [] helper = "waitUntilAttributeDoesNotExists" -> value = NullAttr
      [] OTHER -> FALSE
\* helpers that wait until an element is located
ElementWaits == {"waitForCssXpathElement", "selectDropdownValueByVisibleText"}
\* selectors, as the characters of the string: an xpath and a css selector
Selectors == {<<"/", "/", "s">>, <<"#", "s">>}
\* `const localizador = require("cucumber")`: the exports of the cucumber
\* module, an object and not a string
localizador == [t |-> "module", chars |-> <<>>]
\* only a string (or an array) has the method indexOf
HasIndexOf(v) == v.t = "string"
\* String.prototype.indexOf: position of the first occurrence from 0, or -1
RECURSIVE IndexFrom(_, _, _)
IndexFrom(s, needle, i) ==
    IF i + Len(needle) > Len(s) THEN 0 - 1
    ELSE IF SubSeq(s, i + 1, i + Len(needle)) = needle THEN i
    ELSE IndexFrom(s, needle, i + 1)
indexOf(s, needle) == IndexFrom(s, needle, 0)
\* `(localizador.indexOf('//') === 0) ? "xpath" : "css"`
LocatorKind(v) == IF indexOf(v.chars, <<"/", "/">>) = 0 THEN "xpath" ELSE "css"
\* the locator the selector itself calls for
LocatorOfSelector(sel) ==
    LocatorKind([t |-> "string", chars |-> sel])
\* identifiers that can be read inside waitForCssXpathElement: parameters,
\* locals, the module's requires and the globals the world sets
InScope == {"elementSelector", "waitInMilliseconds", "timeout", "selector",
            "selenium", "localizador", "driver", "helpers", "DEFAULT_TIMEOUT"}
\* the body of waitForCssXpathElement up to driver.wait throws: a TypeError
\* for localizador.indexOf, a ReferenceError for attributeName
ElementWaitThrows ==
    ~HasIndexOf(localizador) \/ "attributeName" \notin InScope

\* texts of the option elements of the dropdown, and requested names
OptionTexts == {"Brazil", "BRAZIL", "Peru", "peru"}
OptionLists == {<<"Peru", "Brazil">>, <<"BRAZIL">>, <<"Peru">>}
\* String.prototype.toUpperCase
toUpperCase(t) ==
    CASE t \in {"Brazil", "BRAZIL"} -> "BRAZIL"
      [] t \in {"Peru", "peru"} -> "PERU"
      [] OTHER -> t
\* `options`: the upper-cased text of every option element
UpperOptions(opts) == [k \in DOMAIN opts |-> toUpperCase(opts[k])]
\* Array.prototype.indexOf: position of the first equal entry from 0, or -1
ArrayIndexOf(arr, x) ==
    IF \E k \in DOMAIN arr : arr[k] = x
      THEN (CHOOSE k \in DOMAIN arr :
              arr[k] = x /\ \A j \in 1..(k - 1) : arr[j] # x) - 1
      ELSE 0 - 1
\* `selectElements[options.indexOf(optionName)].click()`: the option clicked,
\* counted from 1, or 0 when the index names no element and click throws
ClickedOption(opts, name) ==
    ArrayIndexOf(UpperOptions(opts), toUpperCase(name)) + 1

\* one evaluation of the condition: "error" when its promise rejects
Condition(w) ==
    IF w.helper \in {"loadPage"} \cup ElementWaits
      THEN (IF w.element THEN "true" ELSE "false")
      ELSE IF ~getAttributeValue(w).ok THEN "error"
      ELSE IF Predicate(w.helper, getAttributeValue(w).value) THEN "true"
      ELSE "false"

\* `i < timeout` of the loop in waitForNewWindows
LoopContinuesInclusive(i, timeout) == i <= timeout
LoopContinues(i, timeout) == i < timeout

IdleWaits ==
    [phase : {"idle"}, helper : {"none"}, arg : {Omitted},
     DEFAULT_TIMEOUT : DefaultTimeouts, timeout : {0}, message : {NoMessage},
     elapsed : {0}, polls : {0}, i : {0}, outcome : {"none"}, result : {0},
     sawMany : {FALSE}, element : BOOLEAN, attr : AttrValues,
     windows : 1..MaxWindows, poll : PollTimes,
     selector : {<<>>}, locator : {"none"}, present : {FALSE},
     options : {<<>>}, optionName : {""}, clicked : {0}]

InitWait ==
    /\ InHelpers
    /\ store = EmptyStore
    /\ hygiene = [calls |-> 0, seen |-> FALSE, once |-> EmptyStore]
    /\ wait \in IdleWaits

WaitFrame ==
    UNCHANGED <<store, hygiene, config, driver, gdriver, created, session,
                inflight, log, pc, cur, failed, published, attached,
                hookOutcome, doneCount>>

\* driver.wait(condition, timeout, message) begins; a negative timeout makes
\* driver.wait throw at once
StartWait(helper, a, timeout) ==
    wait' = [wait EXCEPT !.helper = helper, !.arg = a, !.timeout = timeout,
                         !.message = TimeoutMessage(helper, a),
                         !.phase = IF timeout < 0 THEN "settled" ELSE "polling",
                         !.outcome = IF timeout < 0 THEN "error" ELSE "none"]

waitUntilAttributeEquals ==
    /\ pc = "helpers" /\ wait.phase = "idle"
    /\ \E a \in MsArgs :
         StartWait("waitUntilAttributeEquals", a,
                   EffectiveTimeout(a, wait.DEFAULT_TIMEOUT))
    /\ WaitFrame

waitUntilAttributeExists ==
    /\ pc = "helpers" /\ wait.phase = "idle"
    /\ \E a \in MsArgs :
         StartWait("waitUntilAttributeExists", a,
                   EffectiveTimeout(a, wait.DEFAULT_TIMEOUT))
    /\ WaitFrame

waitUntilAttributeDoesNotExists ==
    /\ pc = "helpers" /\ wait.phase = "idle"
    /\ \E a \in MsArgs :
         StartWait("waitUntilAttributeDoesNotExists", a,
                   EffectiveTimeout(a, wait.DEFAULT_TIMEOUT))
    /\ WaitFrame

\* loadPage: driver.get(url), then wait until the body element is located
loadPage ==
    /\ pc = "helpers" /\ wait.phase = "idle"
    /\ \E a \in SecondsArgs :
         StartWait("loadPage", a,
                   EffectiveTimeoutSeconds(a, wait.DEFAULT_TIMEOUT))
    /\ WaitFrame

\* waitForCssXpathElement: the body throws before driver.wait is reached;
\* otherwise it waits until the element is located
waitForCssXpathElement ==
    /\ pc = "helpers" /\ wait.phase = "idle"
    /\ \E sel \in Selectors, a \in MsArgs :
         LET timeout == EffectiveTimeout(a, wait.DEFAULT_TIMEOUT)
             called == [wait EXCEPT !.helper = "waitForCssXpathElement",
                                    !.arg = a, !.timeout = timeout,
                                    !.selector = sel,
                                    !.present = wait.element]
         IN wait' =
              IF ElementWaitThrows
                THEN [called EXCEPT !.phase = "settled", !.outcome = "threw"]
              ELSE [called EXCEPT
                      !.locator = LocatorKind(localizador),
                      !.message = [attr |-> "attributeName",
                                   text |-> " still exists after ",
                                   value |-> "", ms |-> Shown(a)],
                      !.phase = IF timeout < 0 THEN "settled" ELSE "polling",
                      !.outcome = IF timeout < 0 THEN "error" ELSE "none"]
    /\ WaitFrame

\* selectDropdownValueByVisibleText: awaits waitForCssXpathElement(selector)
\* with no timeout argument; a throw inside the async function rejects it
selectDropdownValueByVisibleText ==
    /\ pc = "helpers" /\ wait.phase = "idle"
    /\ \E sel \in Selectors, opts \in OptionLists, name \in OptionTexts :
         LET called == [wait EXCEPT
                          !.helper = "selectDropdownValueByVisibleText",
                          !.arg = Omitted, !.timeout = wait.DEFAULT_TIMEOUT,
                          !.selector = sel, !.options = opts,
                          !.optionName = name, !.present = wait.element]
         IN wait' =
              IF ElementWaitThrows
                THEN [called EXCEPT !.phase = "settled", !.outcome = "error"]
              ELSE [called EXCEPT !.locator = LocatorKind(localizador),
                                  !.phase = "polling"]
    /\ WaitFrame

\* one poll of driver.wait: the condition is evaluated; a rejection rejects
\* the wait, a truthy value resolves it, otherwise the wait times out when
\* the timeout has elapsed or polls again
PollCondition ==
    /\ pc = "helpers" /\ wait.phase = "polling"
    /\ wait.helper \in AttributeWaits \cup {"loadPage"} \cup ElementWaits
    /\ LET c == Condition(wait)
           clicked == IF wait.helper = "selectDropdownValueByVisibleText"
                        THEN ClickedOption(wait.options, wait.optionName)
                        ELSE 0
       IN wait' =
            IF c = "error"
              THEN [wait EXCEPT !.phase = "settled", !.outcome = "error",
                                !.polls = @ + 1]
            ELSE IF c = "true"
              THEN [wait EXCEPT
                      !.phase = "settled", !.polls = @ + 1,
                      !.present = TRUE, !.clicked = clicked,
                      !.outcome =
                        IF wait.helper = "selectDropdownValueByVisibleText"
                           /\ clicked = 0
                          THEN "error" ELSE "resolved"]
            ELSE IF wait.elapsed >= wait.timeout
              THEN [wait EXCEPT !.phase = "settled", !.outcome = "timeout",
                                !.polls = @ + 1]
            ELSE [wait EXCEPT !.elapsed = @ + wait.poll, !.polls = @ + 1]
    /\ WaitFrame

\* waitForNewWindows: the call computes the timeout and enters the loop
waitForNewWindows ==
    /\ pc = "helpers" /\ wait.phase = "idle"
    /\ \E a \in MsArgs :
         wait' = [wait EXCEPT !.helper = "waitForNewWindows", !.arg = a,
                              !.timeout = EffectiveTimeout(a, wait.DEFAULT_TIMEOUT),
                              !.phase = "polling", !.i = 0]
    /\ WaitFrame

\* one turn of the loop: leave it and return undefined, or fetch the window
\* handles and return them when there are several, or sleep a second
WindowsLoop ==
    /\ pc = "helpers" /\ wait.phase = "polling"
    /\ wait.helper = "waitForNewWindows"
    /\ wait' =
         IF ~LoopContinues(wait.i, wait.timeout)
           THEN [wait EXCEPT !.phase = "settled", !.outcome = "undefined"]
         ELSE IF wait.windows > 1
           THEN [wait EXCEPT !.phase = "settled", !.outcome = "list",
                             !.result = wait.windows, !.polls = @ + 1,
                             !.sawMany = TRUE]
         ELSE [wait EXCEPT !.polls = @ + 1, !.elapsed = @ + SleepMs,
                           !.i = @ + LoopStepMs]
    /\ WaitFrame

\* the page changes under the wait: the element appears or goes, the
\* attribute changes, a window opens or closes
PageChanges ==
    /\ pc = "helpers" /\ wait.phase \in {"polling", "settled"}
    /\ \E e \in BOOLEAN, v \in AttrValues, n \in 1..MaxWindows :
         /\ <<e, v, n>> # <<wait.element, wait.attr, wait.windows>>
         /\ wait' = [wait EXCEPT !.element = e, !.attr = v, !.windows = n]
    /\ WaitFrame

NextWait ==
    \/ waitUntilAttributeEquals
    \/ waitUntilAttributeExists
    \/ waitUntilAttributeDoesNotExists
    \/ loadPage
    \/ waitForCssXpathElement
    \/ selectDropdownValueByVisibleText
    \/ PollCondition
    \/ waitForNewWindows
    \/ WindowsLoop
    \/ PageChanges

SpecWait == InitWait /\ [][NextWait]_vars

TypeOK ==
    /\ driver \in Handles \cup {Null}
    /\ gdriver \in Handles \cup {Null}
    /\ created \in 0..MaxScenarios
    /\ cur \in Scenarios
    /\ doneCount \in 0..2

\* ------------------------------------------------------------ properties
Count(e) == Cardinality({i \in DOMAIN log : log[i].e = e})
Issued(e, n) == \E i \in DOMAIN log : log[i].e = e /\ log[i].s = n
Before(e1, e2) ==
    \A i \in DOMAIN log : log[i].e = e2 => \E j \in 1..(i - 1) : log[j].e = e1
InTeardown == pc \in {"closing", "quitting", "done"}

AtMostOneSessionAlive ==
    /\ Cardinality({h \in Handles : session[h] \in {"active", "closing"}}) <= 1
    /\ created <= 1

SecondScenarioFindsHandle ==
    /\ cur >= 2
    /\ pc = "steps"
    /\ created = 1
    /\ session[driver] = "active"
    /\ browserTeardownStrategy = "always"

\* C3: while the steps of a scenario run (and until its After hook has
\* started) global.driver is non-null, equals the module-level driver and
\* names an active session, under 'always' as well.
PublishedDriverIsLive ==
    pc \in {"steps", "after"} =>
        /\ gdriver # Null
        /\ gdriver = driver
        /\ session[gdriver] = "active"

PublishedAfterWorldReset ==
    /\ browserTeardownStrategy = "always"
    /\ cur >= 2
    /\ pc = "steps"
    /\ gdriver # Null

\* C4: for a failed scenario with screenshots on, every hygiene command of
\* its After hook is issued after its screenshot was taken and attached, and
\* every attachment precedes the close of final teardown.
ScreenshotBeforeHygiene ==
    /\ \A i \in DOMAIN log :
         (/\ log[i].e \in {"cookies", "storage"}
          /\ failed[log[i].s] /\ ~noScreenshot)
         => \E j \in 1..(i - 1) :
              /\ log[j].e = "attach" /\ log[j].s = log[i].s
              /\ \E k \in 1..(j - 1) : log[k].e = "shot" /\ log[k].s = log[i].s
    /\ \A i, j \in DOMAIN log :
         log[i].e = "attach" /\ log[j].e \in {"close", "quit"} => i < j

ScreenshotThenHygieneWitness ==
    \E n \in Scenarios :
        /\ failed[n] /\ ~noScreenshot
        /\ attached[n]
        /\ Issued("cookies", n) /\ Issued("storage", n)

\* C5: a screenshot command is issued for a scenario iff it failed with
\* screenshots on, and once its After hook is over the scenario has an
\* attachment iff it failed with screenshots on.
ScreenshotIffFailedAndEnabled ==
    \A n \in Scenarios :
        /\ Issued("shot", n) => failed[n] /\ ~noScreenshot
        /\ attached[n] => failed[n] /\ ~noScreenshot
        /\ hookOutcome[n] \notin {"none", "pending"} =>
             /\ Issued("shot", n) <=> (failed[n] /\ ~noScreenshot)
             /\ attached[n] <=> (failed[n] /\ ~noScreenshot)

ScreenshotOnlyOnFailureWitness ==
    \E n, m \in Scenarios :
        /\ attached[n] /\ hookOutcome[n] = "resolved"
        /\ ~failed[m] /\ hookOutcome[m] = "resolved" /\ ~attached[m]

\* C6: the After hook of every scenario resolves: it is never rejected and
\* never throws, with the session gone as well.
AfterHookAlwaysResolves ==
    \A n \in Scenarios : hookOutcome[n] \in {"none", "pending", "resolved"}

\* C7: in AfterFeatures the report comes before close, close and its
\* completion (and quit's, when quit is issued) before done; done is called
\* at most once, exactly once when the run completes, and the report is
\* generated iff the reports directory is configured and exists.
AfterFeaturesOrder ==
    /\ \A i, j \in DOMAIN log :
         log[i].e = "report" /\ log[j].e \in {"close", "quit", "done"} => i < j
    /\ \A i, j \in DOMAIN log :
         log[i].e \in {"close", "closed", "quit", "quitted"} /\ log[j].e = "done"
         => i < j
    /\ doneCount = Count("done")
    /\ doneCount <= 1
    /\ pc = "done" <=> doneCount = 1
    /\ doneCount = 1 /\ browserTeardownStrategy # "always" =>
         /\ Count("closed") = 1
         /\ browserName # "firefox" => Count("quitted") = 1
    /\ pc \in {"closing", "quitting", "done"} =>
         (Count("report") = 1 <=> reportsPath = "exists")
    /\ Count("report") <= 1

AfterFeaturesOrderWitness ==
    /\ pc = "done"
    /\ reportsPath = "exists"
    /\ browserTeardownStrategy # "always"
    /\ Count("report") = 1 /\ Count("close") = 1 /\ doneCount = 1

\* C8: when close or quit has rejected in final teardown, the completion
\* callback has been invoked.
TeardownFailureStillCompletes ==
    pc = "teardownRejected" => doneCount >= 1

\* C9: quit is issued only after close has resolved, at most once, never for
\* firefox, and always for any other browser by the time the run completes.
CloseThenQuit ==
    /\ Before("close", "closed")
    /\ Before("closed", "quit")
    /\ Count("quit") <= 1
    /\ browserName = "firefox" => Count("quit") = 0
    /\ pc = "done" /\ browserTeardownStrategy # "always" =>
         (Count("quit") = 1 <=> browserName # "firefox")

CloseThenQuitWitness ==
    /\ pc = "done"
    /\ browserName = "chrome"
    /\ Count("close") = 1 /\ Count("quit") = 1

AfterFeaturesNeverThrows ==
    pc # "featuresThrown"

\* C13: with an identifier that is neither a named browser nor an existing
\* driver file the factory throws every time it is called: no handle is ever
\* created, held or published, no scenario reaches its steps, and every
\* BeforeScenario that ran attempted the creation again.
UnknownDriverLeavesNoHandle ==
    browserName \notin {"firefox", "phantomjs", "electron", "chrome", "custom"} =>
        /\ driver = Null /\ gdriver = Null /\ created = 0
        /\ \A n \in Scenarios : published[n] = Null
        /\ \A h \in Handles : session[h] = "uninitialized"
        /\ pc \in {"world", "before", "aborted"}
        /\ \A n \in 1..(cur - 1) : Issued("throw", n)
        /\ pc = "aborted" => Issued("throw", cur)

UnknownDriverRetriedWitness ==
    /\ browserName = ""
    /\ Count("throw") >= 2
    /\ driver = Null /\ gdriver = Null

\* C19: once every command of one or of two calls of clearCookiesAndStorages
\* has settled, cookies, localStorage and sessionStorage are all empty, and
\* the state after the second call is the state the first call left.
HygieneIdempotent ==
    (hygiene.calls >= 1 /\ inflight = <<>>) =>
        /\ store = EmptyStore
        /\ (hygiene.calls = 2 /\ hygiene.seen) => store = hygiene.once

HygieneTwiceWitness ==
    /\ hygiene.calls = 2
    /\ hygiene.seen
    /\ inflight = <<>>
    /\ store = hygiene.once

\* C20: every handle the factory returns for a named browser has SSL trust
\* enabled and its window maximized.
NamedDriversTrustSslAndMaximize ==
    \A h \in Handles :
        (session[h] = "active" /\ browserName \in NamedBrowsers) =>
            HandleCaps(h).acceptSslCerts /\ HandleCaps(h).maximized

\* C22: no cookie-deletion or storage-clearing command issued by the After
\* hook of a scenario is still pending once that hook has resolved; hence
\* none is pending when the next scenario's BeforeScenario or steps run or
\* when AfterFeatures issues close.
HygieneSettledWhenHookResolves ==
    \A i \in DOMAIN inflight :
        inflight[i].e \in {"cookies", "storage"} =>
            hookOutcome[inflight[i].s] = "none"

\* ---------------------------------------------------- wait properties
\* the condition an attribute wait is waiting for holds on the page now
ConditionHolds ==
    wait.element /\ Predicate(wait.helper, wait.attr)
CeilDiv(a, b) == (a + b - 1) \div b

\* C14: an attribute wait has not failed while its condition comes to hold
\* strictly before the timeout has elapsed.
WaitResolvesOnceConditionHolds ==
    (/\ wait.phase = "settled"
     /\ wait.helper \in AttributeWaits
     /\ wait.timeout > 0
     /\ wait.outcome \in {"error", "timeout"})
    => ~(ConditionHolds /\ wait.elapsed < wait.timeout)

\* C15: an attribute wait fails only with the timeout error, and no earlier
\* than the timeout and no later than the timeout plus one poll.
WaitFailsOnlyByTimeout ==
    (/\ wait.phase = "settled"
     /\ wait.helper \in AttributeWaits
     /\ wait.timeout > 0
     /\ wait.outcome \in {"error", "timeout"})
    => /\ wait.outcome = "timeout"
       /\ wait.timeout <= wait.elapsed
       /\ wait.elapsed <= wait.timeout + wait.poll

\* C16: the message of a timed-out attribute wait names the attribute, the
\* expected value (equality wait) and the timeout that elapsed.
TimeoutMessageNamesTimeout ==
    (/\ wait.phase = "settled"
     /\ wait.helper \in AttributeWaits
     /\ wait.outcome = "timeout")
    => /\ wait.message.attr = attributeName
       /\ wait.helper = "waitUntilAttributeEquals" =>
            wait.message.value = attributeValue
       /\ wait.message.ms = [t |-> "number", v |-> wait.timeout]

\* C17: the timeout every wait helper runs with is strictly positive, and is
\* the default timeout when the argument is omitted.
EffectiveTimeoutPositive ==
    wait.phase \in {"polling", "settled"} =>
        /\ wait.timeout > 0
        /\ ~wait.arg.given => wait.timeout = wait.DEFAULT_TIMEOUT

\* C18: waitForNewWindows with a positive timeout T polls at most
\* ceil(T/1000) times, a second apart; it returns the handles at the first
\* poll that sees several windows, and returns undefined, never rejecting,
\* after ceil(T/1000) polls that each saw one window, T to T+1000 ms later.
NewWindowsPolling ==
    (wait.helper = "waitForNewWindows" /\ wait.timeout > 0) =>
        /\ wait.polls <= CeilDiv(wait.timeout, 1000)
        /\ wait.outcome \in {"none", "list", "undefined"}
        /\ wait.outcome = "list" =>
             /\ wait.result > 1
             /\ wait.sawMany
             /\ wait.elapsed = (wait.polls - 1) * 1000
             /\ wait.elapsed < wait.timeout
        /\ wait.outcome # "list" =>
             /\ ~wait.sawMany
             /\ wait.elapsed = wait.polls * 1000
        /\ wait.outcome = "undefined" =>
             /\ wait.polls = CeilDiv(wait.timeout, 1000)
             /\ wait.timeout <= wait.elapsed
             /\ wait.elapsed < wait.timeout + 1000

NewWindowsTimedOutWitness ==
    /\ wait.helper = "waitForNewWindows"
    /\ wait.outcome = "undefined"
    /\ wait.timeout = 1500
    /\ wait.polls = 2

\* C21: once waitForCssXpathElement has settled with a matching element on
\* the page within a positive timeout, it has resolved, with the element
\* located by xpath when the selector starts with '//' and by css otherwise;
\* selectDropdownValueByVisibleText has then clicked the option whose text
\* equals the requested name regardless of case, when there is one.
ElementLocatedAndOptionClicked ==
    (/\ wait.phase = "settled"
     /\ wait.helper \in ElementWaits
     /\ wait.timeout > 0
     /\ wait.present)
    => /\ wait.helper = "waitForCssXpathElement" =>
            wait.outcome = "resolved"
       /\ wait.outcome = "resolved" =>
            wait.locator = LocatorOfSelector(wait.selector)
       /\ (/\ wait.helper = "selectDropdownValueByVisibleText"
           /\ \E k \in DOMAIN wait.options :
                toUpperCase(wait.options[k]) = toUpperCase(wait.optionName))
          => /\ wait.outcome = "resolved"
             /\ wait.clicked \in DOMAIN wait.options
             /\ toUpperCase(wait.options[wait.clicked])
                  = toUpperCase(wait.optionName)

====
